---- MODULE Spec2Model ----
\* Persistent data structures of rust-pfds: the unbalanced binary search tree
\* behind UnbalancedMap / UnbalancedSet (src/src/set.rs) and the leftist heap
\* (src/src/heap.rs over src/src/tree.rs).  Trees are graphs of Rc nodes, so
\* the model keeps an explicit store of reference-counted nodes: an address is
\* an index into the store, addresses are never reused, and a node whose
\* strong count has fallen to zero is freed.
EXTENDS Integers, Sequences, FiniteSets, TLC

VARIABLES store, vers, log, last

vars == <<store, vers, log, last>>

\* ------------------------------------------------------------------ bounds
MaxBinds == 5
MaxInserts == 5
MaxHeapOps == 4
MaxDrain == 5
MaxPersistOps == 4
MaxSize == 12
MaxWalk == 3
MaxDepth == 6
MaxNext == 8

Keys == 1..3
Vals == {10, 20}
Elems == 1..4
Items == 1..3
DrainItems == 1..5

\* ------------------------------------------------------ Rc<Tree<E>> store
\* Tree::E and Tree::T(left, value, right)
E == [tag |-> "E"]

T(left, value, right) == [tag |-> "T", left |-> left, val |-> value, right |-> right]

EmptyStore == [node |-> <<>>, strong |-> <<>>]

\* Rc::new: a fresh allocation with strong count 1
RcNew(st, n) ==
  [st |-> [node |-> Append(st.node, n), strong |-> Append(st.strong, 1)],
   p  |-> Len(st.node) + 1]

\* Rc::clone: one more owner of the same allocation
RcClone(st, p) == [st EXCEPT !.strong[p] = @ + 1]

\* drop of an Rc: the last owner frees the node and drops its children
RECURSIVE RcDrop(_, _)
RcDrop(st, p) ==
  IF st.strong[p] > 1 THEN [st EXCEPT !.strong[p] = @ - 1]
  ELSE LET s0 == [st EXCEPT !.strong[p] = 0]
           n  == st.node[p]
       IN IF n.tag = "E" THEN s0
          ELSE RcDrop(RcDrop(s0, n.left), n.right)

\* Tree::empty()
Empty(st) == RcNew(st, E)

\* Tree::leaf(x): two empty children, then the node
Leaf(st, x) ==
  LET e1 == Empty(st)
      e2 == Empty(e1.st)
  IN RcNew(e2.st, T(e1.p, x, e2.p))

\* BinaryTree::count and BinaryTree::depth
RECURSIVE Count(_, _)
Count(st, p) ==
  LET n == st.node[p]
  IN IF n.tag = "E" THEN 0 ELSE 1 + Count(st, n.left) + Count(st, n.right)

RECURSIVE Depth(_, _)
Depth(st, p) ==
  LET n == st.node[p]
  IN IF n.tag = "E" THEN 0
     ELSE LET dl == Depth(st, n.left)
              dr == Depth(st, n.right)
          IN (IF dl >= dr THEN dl ELSE dr) + 1

\* the values of a tree, left subtree first (in-order)
RECURSIVE InOrder(_, _)
InOrder(st, p) ==
  LET n == st.node[p]
  IN IF n.tag = "E" THEN <<>>
     ELSE InOrder(st, n.left) \o <<n.val>> \o InOrder(st, n.right)

\* the addresses reachable from a root (the root included)
RECURSIVE Reach(_, _)
Reach(st, p) ==
  LET n == st.node[p]
  IN IF n.tag = "E" THEN {p}
     ELSE {p} \cup Reach(st, n.left) \cup Reach(st, n.right)

\* every node reachable from a held root is still allocated
Live(st, p) == \A a \in Reach(st, p) : st.strong[a] > 0

\* ---------------------------------------------------------- UnbalancedMap
None == <<>>
Some(x) == <<x>>

\* a new allocation holding a copy of the node at p
ShallowCopy(st, p) ==
  LET n == st.node[p]
  IN IF n.tag = "E" THEN RcNew(st, E)
     ELSE RcNew(RcClone(RcClone(st, n.left), n.right), n)

\* bind that copies the sibling of the path instead of sharing it
RECURSIVE BindIterCopySibling(_, _, _, _, _)
BindIterCopySibling(st, t, x, v, candidate) ==
  LET n == st.node[t]
  IN IF n.tag = "E" THEN
       IF candidate # None /\ candidate[1] = x
       THEN [ok |-> FALSE, st |-> st, p |-> 0]
       ELSE LET r == Leaf(st, <<x, v>>)
            IN [ok |-> TRUE, st |-> r.st, p |-> r.p]
     ELSE IF x < n.val[1] THEN
       LET sub == BindIterCopySibling(st, n.left, x, v, candidate)
       IN IF ~sub.ok THEN sub
          ELSE LET c == ShallowCopy(sub.st, n.right)
                   r == RcNew(c.st, T(sub.p, n.val, c.p))
               IN [ok |-> TRUE, st |-> r.st, p |-> r.p]
     ELSE
       LET c   == ShallowCopy(st, n.left)
           sub == BindIterCopySibling(c.st, n.right, x, v, candidate)
       IN IF ~sub.ok THEN [ok |-> FALSE, st |-> RcDrop(sub.st, c.p), p |-> 0]
          ELSE LET r == RcNew(sub.st, T(c.p, n.val, sub.p))
               IN [ok |-> TRUE, st |-> r.st, p |-> r.p]

\* UnbalancedMap::bind, inner fn iter
RECURSIVE BindIter(_, _, _, _, _)
BindIter(st, t, x, v, candidate) ==
  LET n == st.node[t]
  IN IF n.tag = "E" THEN
       IF candidate # None /\ candidate[1] = x
       THEN [ok |-> FALSE, st |-> st, p |-> 0]
       ELSE LET r == Leaf(st, <<x, v>>)
            IN [ok |-> TRUE, st |-> r.st, p |-> r.p]
     ELSE IF x < n.val[1] THEN
       LET sub == BindIter(st, n.left, x, v, candidate)
       IN IF ~sub.ok THEN sub
          ELSE LET r == RcNew(RcClone(sub.st, n.right), T(sub.p, n.val, n.right))
               IN [ok |-> TRUE, st |-> r.st, p |-> r.p]
     ELSE
       LET sub == BindIter(RcClone(st, n.left), n.right, x, v, candidate)
       IN IF ~sub.ok THEN [ok |-> FALSE, st |-> RcDrop(sub.st, n.left), p |-> 0]
          ELSE LET r == RcNew(sub.st, T(n.left, n.val, sub.p))
               IN [ok |-> TRUE, st |-> r.st, p |-> r.p]

\* UnbalancedMap::bind
Bind(st, root, k, v) ==
  LET r == BindIter(st, root, k, v, None)
  IN IF r.ok THEN [st |-> r.st, p |-> r.p]
     ELSE [st |-> RcClone(r.st, root), p |-> root]

\* lookup that keeps searching to the right of a matching key
RECURSIVE LookupLastMatch(_, _, _)
LookupLastMatch(st, t, x) ==
  LET n == st.node[t]
  IN IF n.tag = "E" THEN None
     ELSE IF x < n.val[1] THEN LookupLastMatch(st, n.left, x)
     ELSE LET deeper == LookupLastMatch(st, n.right, x)
          IN IF deeper # None THEN deeper
             ELSE IF x > n.val[1] THEN None
             ELSE Some(n.val[2])

\* UnbalancedMap::lookup, inner fn iter
RECURSIVE Lookup(_, _, _)
Lookup(st, t, x) ==
  LET n == st.node[t]
  IN IF n.tag = "E" THEN None
     ELSE IF x < n.val[1] THEN Lookup(st, n.left, x)
     ELSE IF x > n.val[1] THEN Lookup(st, n.right, x)
     ELSE Some(n.val[2])

\* ------------------------------------------------------------ client: map
\* UnbalancedMap::empty(), held as the first version
InitMap ==
  LET r == Empty(EmptyStore)
  IN /\ store = r.st
     /\ vers = <<r.p>>
     /\ log = <<>>
     /\ last = [op |-> "empty", x |-> <<>>, pre |-> EmptyStore]

\* m.bind(k, v) on the newest version; every version stays held
MapBind ==
  \E k \in Keys, v \in Vals :
    /\ Len(log) < MaxBinds
    /\ LET r == Bind(store, vers[Len(vers)], k, v)
       IN /\ store' = r.st
          /\ vers' = Append(vers, r.p)
          /\ log' = Append(log, <<k, v>>)
          /\ last' = [op |-> "bind", x |-> <<k, v>>, pre |-> store]

NextMap == MapBind

SpecMap == InitMap /\ [][NextMap]_vars

\* ------------------------------------------------------------- map claims
Newest == vers[Len(vers)]

StrictlyIncreasing(s) == \A i \in 1..(Len(s) - 1) : s[i] < s[i + 1]

\* the keys of a map's tree, in order
MapKeys(st, p) == LET s == InOrder(st, p) IN [i \in 1..Len(s) |-> s[i][1]]

\* the value of the first bind of k in a sequence of binds
FirstBound(binds, k) ==
  LET idx == {i \in 1..Len(binds) : binds[i][1] = k}
  IN IF idx = {} THEN None
     ELSE Some(binds[CHOOSE i \in idx : \A j \in idx : i <= j][2])

\* C1 (as claimed): the in-order traversal of every map built by bind calls
\* yields strictly increasing keys, so no two nodes carry the same key.
C1_MapKeysStrictlyIncreasing ==
  \A i \in 1..Len(vers) : StrictlyIncreasing(MapKeys(store, vers[i]))

\* C2: after any sequence of binds, lookup(k) is the value of the first
\* bind of k, and None for a key that was never bound.
C2_LookupFirstWriteWins ==
  \A i \in 1..Len(vers) : \A k \in Keys :
    Lookup(store, vers[i], k) = FirstBound(SubSeq(log, 1, i - 1), k)

\* C2 witness: a key bound twice with different values still looks up the
\* first one, while another key was never bound.
C2_Witness ==
  /\ \E i \in 1..Len(log) : \E j \in (i + 1)..Len(log) :
       /\ log[i][1] = log[j][1]
       /\ log[i][2] # log[j][2]
       /\ \A h \in 1..(i - 1) : log[h][1] # log[i][1]
       /\ Lookup(store, Newest, log[i][1]) = Some(log[i][2])
  /\ \E k \in Keys : Lookup(store, Newest, k) = None

\* C3 (as claimed): binding a key that is already bound returns the very
\* same root, with the same bindings and no node allocated.
C3_DuplicateBindIsIdentity ==
  (/\ last.op = "bind"
   /\ Lookup(last.pre, vers[Len(vers) - 1], last.x[1]) # None)
  => /\ Newest = vers[Len(vers) - 1]
     /\ Len(store.node) = Len(last.pre.node)
     /\ InOrder(store, Newest) = InOrder(last.pre, vers[Len(vers) - 1])

\* ---------------------------------------------------------- UnbalancedSet
\* UnbalancedSet::member, inner fn iter
RECURSIVE Member(_, _, _)
Member(st, t, x) ==
  LET n == st.node[t]
  IN IF n.tag = "E" THEN FALSE
     ELSE IF x < n.val THEN Member(st, n.left, x)
     ELSE IF x > n.val THEN Member(st, n.right, x)
     ELSE TRUE

\* insert whose descent to the right forgets the node it passed
RECURSIVE InsertIterStaleCandidate(_, _, _, _)
InsertIterStaleCandidate(st, t, x, candidate) ==
  LET n == st.node[t]
  IN IF n.tag = "E" THEN
       IF candidate # None /\ candidate[1] = x
       THEN [ok |-> FALSE, st |-> st, p |-> 0]
       ELSE LET r == Leaf(st, x)
            IN [ok |-> TRUE, st |-> r.st, p |-> r.p]
     ELSE IF x < n.val THEN
       LET sub == InsertIterStaleCandidate(st, n.left, x, candidate)
       IN IF ~sub.ok THEN sub
          ELSE LET r == RcNew(RcClone(sub.st, n.right), T(sub.p, n.val, n.right))
               IN [ok |-> TRUE, st |-> r.st, p |-> r.p]
     ELSE
       LET sub == InsertIterStaleCandidate(RcClone(st, n.left), n.right, x, candidate)
       IN IF ~sub.ok THEN [ok |-> FALSE, st |-> RcDrop(sub.st, n.left), p |-> 0]
          ELSE LET r == RcNew(sub.st, T(n.left, n.val, sub.p))
               IN [ok |-> TRUE, st |-> r.st, p |-> r.p]

\* insert that takes any candidate not above x for a duplicate
RECURSIVE InsertIterLeqCandidate(_, _, _, _)
InsertIterLeqCandidate(st, t, x, candidate) ==
  LET n == st.node[t]
  IN IF n.tag = "E" THEN
       IF candidate # None /\ candidate[1] <= x
       THEN [ok |-> FALSE, st |-> st, p |-> 0]
       ELSE LET r == Leaf(st, x)
            IN [ok |-> TRUE, st |-> r.st, p |-> r.p]
     ELSE IF x < n.val THEN
       LET sub == InsertIterLeqCandidate(st, n.left, x, candidate)
       IN IF ~sub.ok THEN sub
          ELSE LET r == RcNew(RcClone(sub.st, n.right), T(sub.p, n.val, n.right))
               IN [ok |-> TRUE, st |-> r.st, p |-> r.p]
     ELSE
       LET sub == InsertIterLeqCandidate(RcClone(st, n.left), n.right, x, Some(n.val))
       IN IF ~sub.ok THEN [ok |-> FALSE, st |-> RcDrop(sub.st, n.left), p |-> 0]
          ELSE LET r == RcNew(sub.st, T(n.left, n.val, sub.p))
               IN [ok |-> TRUE, st |-> r.st, p |-> r.p]

\* UnbalancedSet::insert, inner fn iter.  Arguments are evaluated left to
\* right: the `?` on the left descent returns before right is cloned, the
\* clone of left made before the right descent is dropped again on Err.
RECURSIVE InsertIter(_, _, _, _)
InsertIter(st, t, x, candidate) ==
  LET n == st.node[t]
  IN IF n.tag = "E" THEN
       IF candidate # None /\ candidate[1] = x
       THEN [ok |-> FALSE, st |-> st, p |-> 0]
       ELSE LET r == Leaf(st, x)
            IN [ok |-> TRUE, st |-> r.st, p |-> r.p]
     ELSE IF x < n.val THEN
       LET sub == InsertIter(st, n.left, x, candidate)
       IN IF ~sub.ok THEN sub
          ELSE LET r == RcNew(RcClone(sub.st, n.right), T(sub.p, n.val, n.right))
               IN [ok |-> TRUE, st |-> r.st, p |-> r.p]
     ELSE
       LET sub == InsertIter(RcClone(st, n.left), n.right, x, Some(n.val))
       IN IF ~sub.ok THEN [ok |-> FALSE, st |-> RcDrop(sub.st, n.left), p |-> 0]
          ELSE LET r == RcNew(sub.st, T(n.left, n.val, sub.p))
               IN [ok |-> TRUE, st |-> r.st, p |-> r.p]

\* UnbalancedSet::insert
Insert(st, root, x) ==
  LET r == InsertIter(st, root, x, None)
  IN IF r.ok THEN [st |-> r.st, p |-> r.p]
     ELSE [st |-> RcClone(r.st, root), p |-> root]

\* ------------------------------------------------------------ client: set
\* UnbalancedSet::empty(), held as the first version
InitSet ==
  LET r == Empty(EmptyStore)
  IN /\ store = r.st
     /\ vers = <<r.p>>
     /\ log = <<>>
     /\ last = [op |-> "empty", x |-> <<>>, pre |-> EmptyStore]

\* s.insert(x) on the newest version; every version stays held
SetInsert ==
  \E x \in Elems :
    /\ Len(log) < MaxInserts
    /\ LET r == Insert(store, vers[Len(vers)], x)
       IN /\ store' = r.st
          /\ vers' = Append(vers, r.p)
          /\ log' = Append(log, x)
          /\ last' = [op |-> "insert", x |-> x, pre |-> store]

NextSet == SetInsert

SpecSet == InitSet /\ [][NextSet]_vars

\* ------------------------------------------------------------- set claims
Previous == vers[Len(vers) - 1]

Inserted(i) == {log[j] : j \in 1..(i - 1)}

\* C4: after any sequence of inserts, member(x) holds exactly for the
\* values that were inserted; nothing is a member of the empty set.
C4_MemberIffInserted ==
  \A i \in 1..Len(vers) : \A x \in Elems :
    Member(store, vers[i], x) <=> x \in Inserted(i)

\* C4 witness: three distinct values went in, smaller and larger than the
\* root, and a fourth value is not a member.
C4_Witness ==
  /\ Cardinality(Inserted(Len(vers))) = 3
  /\ Depth(store, Newest) = 3
  /\ \A x \in Inserted(Len(vers)) : Member(store, Newest, x)
  /\ \E x \in Elems : ~Member(store, Newest, x)
  /\ \A x \in Elems : ~Member(store, vers[1], x)

\* C5: inserting a value that is already a member returns the very same
\* root; no node is allocated, the tree is unchanged and only the strong
\* count of that root grows, by exactly one.
C5_DuplicateInsertSharesRoot ==
  (/\ last.op = "insert"
   /\ Member(last.pre, Previous, last.x))
  => /\ Newest = Previous
     /\ store.node = last.pre.node
     /\ store.strong = [last.pre.strong EXCEPT ![Previous] = @ + 1]

\* C5 witness: a duplicate insert whose value sits below the root, reached
\* through right and left descents, came back with the shared root.
C5_Witness ==
  /\ last.op = "insert"
  /\ Member(last.pre, Previous, last.x)
  /\ store.node[Previous].val # last.x
  /\ Count(store, Previous) >= 3
  /\ Newest = Previous
  /\ store.strong[Newest] = last.pre.strong[Newest] + 1

\* C6: the in-order traversal of every set built by inserts (duplicates
\* included) yields strictly increasing values.
C6_SetValuesStrictlyIncreasing ==
  \A i \in 1..Len(vers) : StrictlyIncreasing(InOrder(store, vers[i]))

\* C6 witness: a tree of three nodes after a sequence of inserts that
\* repeated a value.
C6_Witness ==
  /\ Count(store, Newest) = 3
  /\ Len(log) > 3
  /\ StrictlyIncreasing(InOrder(store, Newest))

\* ------------------------------------------------------------ LeftistHeap
\* heap nodes hold (rank, item); tree.rs Tree::node clones both children

\* rank
Rank(st, p) ==
  LET n == st.node[p]
  IN IF n.tag = "E" THEN 0 ELSE n.val[1]

\* Tree::node(&left, x, &right) of tree.rs
Node(st, left, x, right) ==
  RcNew(RcClone(RcClone(st, left), right), T(left, x, right))

\* make_t that never swaps the children
MakeTNoSwap(st, x, a, b) == Node(st, a, <<Rank(st, b) + 1, x>>, b)

\* make_t
MakeT(st, x, a, b) ==
  IF Rank(st, a) >= Rank(st, b)
  THEN Node(st, a, <<Rank(st, b) + 1, x>>, b)
  ELSE Node(st, b, <<Rank(st, a) + 1, x>>, a)

\* merge that keeps the larger root on top
RECURSIVE MergeIterMaxOnTop(_, _, _)
MergeIterMaxOnTop(st, h1, h2) ==
  LET n1 == st.node[h1]
      n2 == st.node[h2]
  IN IF n1.tag = "E" THEN [st |-> RcClone(st, h2), p |-> h2]
     ELSE IF n2.tag = "E" THEN [st |-> RcClone(st, h1), p |-> h1]
     ELSE IF n1.val[2] >= n2.val[2] THEN
       LET sub == MergeIterMaxOnTop(st, n1.right, h2)
           m   == MakeT(sub.st, n1.val[2], n1.left, sub.p)
       IN [st |-> RcDrop(m.st, sub.p), p |-> m.p]
     ELSE
       LET sub == MergeIterMaxOnTop(st, h1, n2.right)
           m   == MakeT(sub.st, n2.val[2], n2.left, sub.p)
       IN [st |-> RcDrop(m.st, sub.p), p |-> m.p]

\* LeftistHeap::merge, inner fn iter; the merged right spine is a temporary
\* that make_t clones and the caller then drops
RECURSIVE MergeIter(_, _, _)
MergeIter(st, h1, h2) ==
  LET n1 == st.node[h1]
      n2 == st.node[h2]
  IN IF n1.tag = "E" THEN [st |-> RcClone(st, h2), p |-> h2]
     ELSE IF n2.tag = "E" THEN [st |-> RcClone(st, h1), p |-> h1]
     ELSE IF n1.val[2] <= n2.val[2] THEN
       LET sub == MergeIter(st, n1.right, h2)
           m   == MakeT(sub.st, n1.val[2], n1.left, sub.p)
       IN [st |-> RcDrop(m.st, sub.p), p |-> m.p]
     ELSE
       LET sub == MergeIter(st, h1, n2.right)
           m   == MakeT(sub.st, n2.val[2], n2.left, sub.p)
       IN [st |-> RcDrop(m.st, sub.p), p |-> m.p]

\* merge that also writes the merged root over the node of its receiver
MergeInPlace(st, h1, h2) ==
  LET m == MergeIter(st, h1, h2)
  IN [st |-> [m.st EXCEPT !.node[h1] = m.st.node[m.p]], p |-> m.p]

\* LeftistHeap::merge
Merge(st, h1, h2) == MergeIter(st, h1, h2)

\* LeftistHeap::insert: merge with a temporary singleton
HeapInsert(st, h, x) ==
  LET leaf == Leaf(st, <<1, x>>)
      m    == Merge(leaf.st, h, leaf.p)
  IN [st |-> RcDrop(m.st, leaf.p), p |-> m.p]

\* LeftistHeap::is_empty
IsEmpty(st, h) == st.node[h].tag = "E"

\* LeftistHeap::find_min
FindMin(st, h) ==
  LET n == st.node[h]
  IN IF n.tag = "E" THEN None ELSE Some(n.val[2])

\* delete_min that forgets the right child
DeleteMinLeftOnly(st, h) ==
  LET n == st.node[h]
  IN [st |-> RcClone(st, IF n.tag = "E" THEN h ELSE n.left),
      p  |-> IF n.tag = "E" THEN h ELSE n.left]

\* LeftistHeap::delete_min: merge of clones of the two children
DeleteMin(st, h) ==
  LET n == st.node[h]
  IN IF n.tag = "E" THEN [st |-> RcClone(st, h), p |-> h]
     ELSE LET m == Merge(RcClone(RcClone(st, n.left), n.right), n.left, n.right)
          IN [st |-> RcDrop(RcDrop(m.st, n.right), n.left), p |-> m.p]

\* ----------------------------------------------------------- client: heap
\* LeftistHeap::empty(), held as the first version
InitHeap ==
  LET r == Empty(EmptyStore)
  IN /\ store = r.st
     /\ vers = <<r.p>>
     /\ log = <<>>
     /\ last = [op |-> "empty", x |-> <<>>, pre |-> EmptyStore]

\* h.insert(x) on the newest heap
HeapInsertOp ==
  \E x \in Items :
    /\ Len(log) < MaxHeapOps
    /\ LET r == HeapInsert(store, Newest, x)
       IN /\ store' = r.st
          /\ vers' = Append(vers, r.p)
          /\ log' = Append(log, <<"insert", x>>)
          /\ last' = [op |-> "insert", x |-> <<Newest, x>>, pre |-> store]

\* a.merge(&b) of any two held heaps
HeapMergeOp ==
  \E i \in 1..Len(vers), j \in 1..Len(vers) :
    /\ Len(log) < MaxHeapOps
    /\ LET r == Merge(store, vers[i], vers[j])
       IN /\ store' = r.st
          /\ vers' = Append(vers, r.p)
          /\ log' = Append(log, <<"merge", i, j>>)
          /\ last' = [op |-> "merge", x |-> <<vers[i], vers[j]>>, pre |-> store]

\* h.delete_min() on the newest heap
HeapDeleteMinOp ==
  /\ Len(log) < MaxHeapOps
  /\ LET r == DeleteMin(store, Newest)
     IN /\ store' = r.st
        /\ vers' = Append(vers, r.p)
        /\ log' = Append(log, <<"delete_min">>)
        /\ last' = [op |-> "delete_min", x |-> <<Newest>>, pre |-> store]

NextHeap == HeapInsertOp \/ HeapMergeOp \/ HeapDeleteMinOp

SpecHeap == InitHeap /\ [][NextHeap]_vars

\* ------------------------------------------------------------ heap claims
\* the T nodes reachable from a root
TNodes(st, p) == {a \in Reach(st, p) : st.node[a].tag = "T"}

\* the number of nodes met by following right children
RECURSIVE RightSpine(_, _)
RightSpine(st, p) ==
  LET n == st.node[p]
  IN IF n.tag = "E" THEN 0 ELSE 1 + RightSpine(st, n.right)

\* the items of a heap
HeapItems(st, p) == {st.node[a].val[2] : a \in TNodes(st, p)}

Min2(x, y) == IF x <= y THEN x ELSE y

Leftist(st, p) ==
  \A a \in TNodes(st, p) :
    LET n == st.node[a]
    IN /\ Rank(st, n.left) >= Rank(st, n.right)
       /\ n.val[1] = 1 + Rank(st, n.right)
       /\ n.val[1] = RightSpine(st, a)

HeapOrdered(st, p) ==
  \A a \in TNodes(st, p) :
    LET n == st.node[a]
    IN \A c \in {n.left, n.right} :
         st.node[c].tag = "T" => n.val[2] <= st.node[c].val[2]

\* C7: in every heap reachable by insert, merge and delete_min, every node
\* has rank(left) >= rank(right) and stored rank 1 + rank(right), which is
\* the length of its right spine; rank(empty) = 0.
C7_LeftistInvariant ==
  \A i \in 1..Len(vers) :
    /\ Leftist(store, vers[i])
    /\ IsEmpty(store, vers[i]) => Rank(store, vers[i]) = 0

\* C7 witness: a merge produced a heap whose root has rank 2 over a left
\* child that is larger than the right one.
C7_Witness ==
  /\ last.op = "merge"
  /\ Rank(store, Newest) = 2
  /\ Count(store, store.node[Newest].left) > Count(store, store.node[Newest].right)
  /\ Leftist(store, Newest)

\* C8: in every reachable heap each node's item is at most the items of its
\* non-empty children, so find_min is a minimum of all the items.
C8_HeapOrder ==
  \A i \in 1..Len(vers) :
    /\ HeapOrdered(store, vers[i])
    /\ \A y \in HeapItems(store, vers[i]) :
         /\ FindMin(store, vers[i]) # None
         /\ FindMin(store, vers[i])[1] <= y

\* C8 witness: a delete_min took the minimum off a heap of three different
\* items and left the smaller of the other two, inserted last, at the root.
C8_Witness ==
  /\ last.op = "delete_min"
  /\ Cardinality(HeapItems(last.pre, last.x[1])) = 3
  /\ Count(store, Newest) = 2
  /\ log[Len(log) - 1] = <<"insert", 2>>
  /\ FindMin(store, Newest) = Some(2)
  /\ HeapOrdered(store, Newest)

\* C9: for two non-empty heaps A and B, merge(A, B).find_min() is the
\* smaller of A.find_min() and B.find_min().
C9_MergeFindMin ==
  (/\ last.op = "merge"
   /\ ~IsEmpty(last.pre, last.x[1])
   /\ ~IsEmpty(last.pre, last.x[2]))
  => FindMin(store, Newest) =
       Some(Min2(FindMin(last.pre, last.x[1])[1], FindMin(last.pre, last.x[2])[1]))

\* C9 witness: a merge of two different non-empty heaps where the second
\* one holds the smaller minimum.
C9_Witness ==
  /\ last.op = "merge"
  /\ ~IsEmpty(last.pre, last.x[1])
  /\ ~IsEmpty(last.pre, last.x[2])
  /\ last.x[1] # last.x[2]
  /\ FindMin(last.pre, last.x[2])[1] < FindMin(last.pre, last.x[1])[1]
  /\ FindMin(store, Newest) = FindMin(last.pre, last.x[2])

\* ---------------------------------------------------- client: heap drain
\* a heap is built by inserts alone and then emptied by find_min followed
\* by delete_min; log keeps what went in and what came out
InitDrain ==
  LET r == Empty(EmptyStore)
  IN /\ store = r.st
     /\ vers = <<r.p>>
     /\ log = [ins |-> <<>>, out |-> <<>>]
     /\ last = [op |-> "empty", x |-> <<>>, pre |-> EmptyStore]

DrainInsert ==
  \E x \in DrainItems :
    /\ log.out = <<>>
    /\ Len(log.ins) < MaxDrain
    /\ LET r == HeapInsert(store, Newest, x)
       IN /\ store' = r.st
          /\ vers' = Append(vers, r.p)
          /\ log' = [log EXCEPT !.ins = Append(@, x)]
          /\ last' = [op |-> "insert", x |-> <<Newest, x>>, pre |-> store]

DrainDeleteMin ==
  /\ ~IsEmpty(store, Newest)
  /\ LET r == DeleteMin(store, Newest)
     IN /\ store' = r.st
        /\ vers' = Append(vers, r.p)
        /\ log' = [log EXCEPT !.out = Append(@, FindMin(store, Newest)[1])]
        /\ last' = [op |-> "delete_min", x |-> <<Newest>>, pre |-> store]

NextDrain == DrainInsert \/ DrainDeleteMin

SpecDrain == InitDrain /\ [][NextDrain]_vars

\* s with x put in before the first larger element
RECURSIVE InsertSorted(_, _)
InsertSorted(s, x) ==
  IF s = <<>> THEN <<x>>
  ELSE IF x <= Head(s) THEN <<x>> \o s
  ELSE <<Head(s)>> \o InsertSorted(Tail(s), x)

\* s in non-decreasing order
RECURSIVE Sorted(_)
Sorted(s) ==
  IF s = <<>> THEN <<>>
  ELSE InsertSorted(Sorted(SubSeq(s, 1, Len(s) - 1)), s[Len(s)])

\* C10: draining a heap built by inserts yields the inserted values in
\* non-decreasing order, each as often as it was inserted, and then the
\* heap is empty: is_empty() is true and find_min() is None.
C10_DrainSorted ==
  /\ log.out = SubSeq(Sorted(log.ins), 1, Len(log.out))
  /\ IsEmpty(store, Newest) <=> Len(log.out) = Len(log.ins)
  /\ IsEmpty(store, Newest) => FindMin(store, Newest) = None

\* C10 witness: five values with a repeat, inserted out of order (5, 1, 4,
\* 1, 3), all came out again as 1, 1, 3, 4, 5 and the heap is empty.
C10_Witness ==
  /\ log.ins = <<5, 1, 4, 1, 3>>
  /\ log.out = <<1, 1, 3, 4, 5>>
  /\ IsEmpty(store, Newest)
  /\ FindMin(store, Newest) = None

\* ------------------------------------------------------- store well-formed
\* the owners of an allocation: the held versions and the live parent nodes
Owners(st, held, a) ==
  Cardinality({i \in 1..Len(held) : held[i] = a})
  + Cardinality({b \in 1..Len(st.node) :
       st.strong[b] > 0 /\ st.node[b].tag = "T" /\ st.node[b].left = a})
  + Cardinality({b \in 1..Len(st.node) :
       st.strong[b] > 0 /\ st.node[b].tag = "T" /\ st.node[b].right = a})

\* every strong count is the number of owners, and no held tree dangles
StoreWellFormed ==
  /\ \A a \in 1..Len(store.node) : store.strong[a] = Owners(store, vers, a)
  /\ \A i \in 1..Len(vers) : Live(store, vers[i])

\* ---------------------------------------------------- client: persistence
\* one structure (a map, a set or a heap) whose caller keeps every version;
\* log.snap keeps, for every version, what it looked like when it was made

\* the nodes of a tree by address, and what the read operations return
TreeAt(st, p) == [a \in Reach(st, p) |-> st.node[a]]

Observe(kind, st, p) ==
  IF kind = "map" THEN [k \in Keys |-> Lookup(st, p, k)]
  ELSE IF kind = "set" THEN [x \in Elems |-> Member(st, p, x)]
  ELSE FindMin(st, p)

Snapshot(kind, st, p) == [tree |-> TreeAt(st, p), obs |-> Observe(kind, st, p)]

\* the state after one call that returned r
Held(r, op, x) ==
  /\ log.ops < MaxPersistOps
  /\ store' = r.st
  /\ vers' = Append(vers, r.p)
  /\ log' = [log EXCEPT !.ops = @ + 1,
                        !.snap = Append(@, Snapshot(log.kind, r.st, r.p))]
  /\ last' = [op |-> op, x |-> x, pre |-> store]

InitPersist ==
  \E kind \in {"map", "set", "heap"} :
    LET r == Empty(EmptyStore)
    IN /\ store = r.st
       /\ vers = <<r.p>>
       /\ log = [kind |-> kind, ops |-> 0, snap |-> <<Snapshot(kind, r.st, r.p)>>]
       /\ last = [op |-> "empty", x |-> <<>>, pre |-> EmptyStore]

\* bind on one of the two newest maps
PersistBind ==
  \E i \in 1..Len(vers), k \in Keys, v \in Vals :
    /\ log.kind = "map"
    /\ i >= Len(vers) - 1
    /\ Held(Bind(store, vers[i], k, v), "bind", <<vers[i], k, v>>)

\* insert on one of the two newest sets
PersistSetInsert ==
  \E i \in 1..Len(vers), x \in Elems :
    /\ log.kind = "set"
    /\ i >= Len(vers) - 1
    /\ Held(Insert(store, vers[i], x), "insert", <<vers[i], x>>)

\* insert and delete_min on the newest heap
PersistHeapInsert ==
  \E x \in Items :
    /\ log.kind = "heap"
    /\ Held(HeapInsert(store, Newest, x), "insert", <<Newest, x>>)

\* merge of any held heap with the newest one
PersistHeapMerge ==
  \E i \in 1..Len(vers) :
    /\ log.kind = "heap"
    /\ Held(Merge(store, vers[i], Newest), "merge", <<vers[i], Newest>>)

PersistHeapDeleteMin ==
  /\ log.kind = "heap"
  /\ Held(DeleteMin(store, Newest), "delete_min", <<Newest>>)

NextPersist ==
  \/ PersistBind
  \/ PersistSetInsert
  \/ PersistHeapInsert
  \/ PersistHeapMerge
  \/ PersistHeapDeleteMin

SpecPersist == InitPersist /\ [][NextPersist]_vars

\* C11: every version the caller still holds is left unchanged by every
\* later operation: its nodes (shape, keys, values, ranks) are the ones it
\* was made of, none of them is freed, and lookup / member / find_min on it
\* return what they returned when it was made.
C11_Persistence ==
  \A i \in 1..Len(vers) :
    /\ Live(store, vers[i])
    /\ Snapshot(log.kind, store, vers[i]) = log.snap[i]

\* C11 witness: an old non-empty version shares nodes with a newer, different
\* one that was derived after it, and still reads as it did.
C11_Witness ==
  \E i \in 2..(Len(vers) - 2) :
    /\ vers[i] # Newest
    /\ Count(store, vers[i]) >= 2
    /\ \E a \in Reach(store, vers[i]) \cap Reach(store, Newest) :
         store.node[a].tag = "T"
    /\ Snapshot(log.kind, store, Newest) # log.snap[i]
    /\ Snapshot(log.kind, store, vers[i]) = log.snap[i]

\* ------------------------------------------------------ path copying (map)
\* the T nodes bind's descent for key x visits from t, root first
RECURSIVE SearchPath(_, _, _)
SearchPath(st, t, x) ==
  LET n == st.node[t]
  IN IF n.tag = "E" THEN <<>>
     ELSE IF x < n.val[1] THEN <<t>> \o SearchPath(st, n.left, x)
     ELSE <<t>> \o SearchPath(st, n.right, x)

\* the addresses allocated by the last operation
Allocated == (Len(last.pre.node) + 1)..Len(store.node)

\* C12 (as claimed): when bind adds a key that is not yet bound, the newly
\* allocated nodes are exactly the nodes on the search path down to the new
\* leaf, and every subtree hanging off that path in the result is an
\* allocation of the original map.
C12_OnlyPathAllocated ==
  (/\ last.op = "bind"
   /\ Lookup(last.pre, Previous, last.x[1]) = None)
  => LET new  == SearchPath(store, Newest, last.x[1])
         path == {new[i] : i \in 1..Len(new)}
     IN /\ Allocated = path
        /\ \A a \in path :
             \A c \in {store.node[a].left, store.node[a].right} \ path :
               c \in 1..Len(last.pre.node)

\* C12 (amended): when bind adds a key that is not yet bound and the new leaf sits at
\* depth d, the tree nodes (Tree::T) allocated are exactly the d nodes on the
\* search path from the new root down to the new leaf; each of them above the
\* leaf keeps the entry of the node it copies, and its child off the path is
\* the very same allocation as in the original map.  Nothing else is
\* allocated but the two empty children of the new leaf.
C12_PathCopying ==
  (/\ last.op = "bind"
   /\ Lookup(last.pre, Previous, last.x[1]) = None)
  => LET old  == SearchPath(last.pre, Previous, last.x[1])
         new  == SearchPath(store, Newest, last.x[1])
         d    == Len(new)
         leaf == store.node[new[d]]
     IN /\ d = Len(old) + 1
        /\ Depth(store, new[d]) = 1
        /\ leaf.val = last.x
        /\ {a \in Allocated : store.node[a].tag = "T"} = {new[i] : i \in 1..d}
        /\ Cardinality({new[i] : i \in 1..d}) = d
        /\ Allocated = {new[i] : i \in 1..d} \cup {leaf.left, leaf.right}
        /\ \A i \in 1..(d - 1) :
             LET c == store.node[new[i]]
                 o == last.pre.node[old[i]]
             IN /\ c.val = o.val
                /\ IF last.x[1] < o.val[1]
                   THEN c.right = o.right /\ c.left = new[i + 1]
                   ELSE c.left = o.left /\ c.right = new[i + 1]
        /\ \A a \in 1..Len(last.pre.node) : store.node[a] = last.pre.node[a]

\* C12 witness: a new key went in at depth 3, and a copied node on the path
\* shares a non-empty subtree with the original map.
C12_Witness ==
  /\ last.op = "bind"
  /\ Lookup(last.pre, Previous, last.x[1]) = None
  /\ Len(SearchPath(store, Newest, last.x[1])) = 3
  /\ Cardinality({a \in Allocated : store.node[a].tag = "T"}) = 3
  /\ \E a \in Reach(store, Newest) \cap Reach(last.pre, Previous) :
       store.node[a].tag = "T"

\* ------------------------------------------------- usize and f64 numbers
\* A usize is a sequence of bits, lowest first, without leading zero bits,
\* so that sizes beyond the 32-bit integers of TLC keep the width
\* they have in the program.
UsizeBits == 64
MantissaBits == 53

\* without leading zero bits
Norm(b) ==
  IF \A i \in 1..Len(b) : b[i] = 0 THEN <<>>
  ELSE SubSeq(b, 1, CHOOSE i \in 1..Len(b) :
                      b[i] = 1 /\ \A j \in (i + 1)..Len(b) : b[j] = 0)

RECURSIVE ToBits(_)
ToBits(n) == IF n = 0 THEN <<>> ELSE <<n % 2>> \o ToBits(n \div 2)

RECURSIVE ToNat(_)
ToNat(b) == IF b = <<>> THEN 0 ELSE b[1] + 2 * ToNat(Tail(b))

\* 2^k
RECURSIVE Pow2(_)
Pow2(k) == IF k = 0 THEN 1 ELSE 2 * Pow2(k - 1)

Pow2Bits(k) == [i \in 1..(k + 1) |-> IF i = k + 1 THEN 1 ELSE 0]

\* b + 1: the lowest 0 bit becomes 1 and the 1 bits below it become 0
Succ(b) ==
  IF \A i \in 1..Len(b) : b[i] = 1
  THEN [i \in 1..(Len(b) + 1) |-> IF i = Len(b) + 1 THEN 1 ELSE 0]
  ELSE LET k == CHOOSE i \in 1..Len(b) :
                  b[i] = 0 /\ \A j \in 1..(i - 1) : b[j] = 1
       IN [i \in 1..Len(b) |-> IF i < k THEN 0 ELSE IF i = k THEN 1 ELSE b[i]]

\* b - 1 (b > 0): the lowest 1 bit becomes 0 and the 0 bits below it become 1
Pred(b) ==
  LET k == CHOOSE i \in 1..Len(b) :
             b[i] = 1 /\ \A j \in 1..(i - 1) : b[j] = 0
  IN Norm([i \in 1..Len(b) |-> IF i < k THEN 1 ELSE IF i = k THEN 0 ELSE b[i]])

\* bits lo..hi of a + b with carry c into bit lo, and the carry out of bit hi
RECURSIVE AddC(_, _, _, _, _)
AddC(a, b, lo, hi, c) ==
  IF lo = hi THEN
    LET t == (IF lo > Len(a) THEN 0 ELSE a[lo])
             + (IF lo > Len(b) THEN 0 ELSE b[lo]) + c
    IN [s |-> <<t % 2>>, c |-> t \div 2]
  ELSE LET mid  == (lo + hi) \div 2
           low  == AddC(a, b, lo, mid, c)
           high == AddC(a, b, mid + 1, hi, low.c)
       IN [s |-> low.s \o high.s, c |-> high.c]

Add(a, b) ==
  LET n == (IF Len(a) >= Len(b) THEN Len(a) ELSE Len(b)) + 1
  IN Norm(AddC(a, b, 1, n, 0).s)

\* usize arithmetic wraps at 2^64 (release build)
Wrap(b) == IF Len(b) > UsizeBits THEN Norm(SubSeq(b, 1, UsizeBits)) ELSE b

\* `n as f64`: the nearest number with 53 significant bits, ties to the
\* even significand
AsF64(b) ==
  IF Len(b) <= MantissaBits THEN b
  ELSE LET k    == Len(b) - MantissaBits
           rest == SubSeq(b, 1, k)
           kept == SubSeq(b, k + 1, Len(b))
           half == rest[k] = 1
           more == \E i \in 1..(k - 1) : rest[i] = 1
           up   == half /\ (more \/ kept[1] = 1)
       IN [i \in 1..k |-> 0] \o (IF up THEN Succ(kept) ELSE kept)

\* `(x / 2.0).floor() as usize` of an integral f64 below 2^65
HalfFloor(b) == IF b = <<>> THEN <<>> ELSE Tail(b)

\* the exact floor((size - 1) / 2) of integer arithmetic
SubtreeSizeExact(size) == HalfFloor(Pred(size))

\* ((size - 1) as f64 / 2.0).floor() as usize
SubtreeSize(size) == HalfFloor(AsF64(Pred(size)))

\* ---------------------------------------------------------------- tree_of
\* tree_of and its inner fn create2 run on an explicit call stack: a frame is
\* the function, its size argument, the point it has reached, and the result
\* it already holds; ret is the value just returned to the top frame.
MaxRunDepth == 14

Frame(fn, arg) == [fn |-> fn, arg |-> arg, pc |-> "match", held |-> <<>>]

Caller(m) == SubSeq(m.stack, 1, Len(m.stack) - 1)

Call(m, f, callee) ==
  [m EXCEPT !.stack = Caller(m) \o <<f, callee>>, !.ret = <<>>]

Return(m, st, ret) == [m EXCEPT !.st = st, !.stack = Caller(m), !.ret = ret]

\* fn create2(m, value) -> (larger, smaller)
Create2(m, f, value) ==
  IF f.pc = "match" THEN
    IF f.arg = <<>> THEN
      LET l == Leaf(m.st, value)
          e == Empty(l.st)
      IN Return(m, e.st, <<l.p, e.p>>)
    ELSE Call(m, [f EXCEPT !.pc = "larger"],
              Frame("tree_of", Wrap(Succ(f.arg))))
  ELSE IF f.pc = "larger" THEN
    Call(m, [f EXCEPT !.pc = "smaller", !.held = m.ret],
         Frame("tree_of", f.arg))
  ELSE Return(m, m.st, f.held \o m.ret)

\* the match of tree_of; ok becomes false in the unreachable arm
TreeOfMatch(m, f, value) ==
  IF f.pc = "match" THEN
    IF f.arg = <<>> THEN
      LET r == Empty(m.st) IN Return(m, r.st, <<r.p>>)
    ELSE IF f.arg = <<1>> THEN
      LET r == Leaf(m.st, value) IN Return(m, r.st, <<r.p>>)
    ELSE IF f.arg[1] = 0 THEN
      Call(m, [f EXCEPT !.pc = "even"], Frame("create2", SubtreeSize(f.arg)))
    ELSE IF f.arg[1] = 1 THEN
      Call(m, [f EXCEPT !.pc = "odd"], Frame("tree_of", SubtreeSize(f.arg)))
    ELSE [m EXCEPT !.ok = FALSE]
  ELSE IF f.pc = "even" THEN
    LET r == RcNew(m.st, T(m.ret[1], value, m.ret[2]))
    IN Return(m, r.st, <<r.p>>)
  ELSE
    LET subtree == m.ret[1]
        r == RcNew(RcClone(RcClone(m.st, subtree), subtree),
                   T(subtree, value, subtree))
    IN Return(m, RcDrop(r.st, subtree), <<r.p>>)

Returned(m) == m.stack = <<>> \/ ~m.ok

\* the top frame runs to its next call or to its return
Step(m, value) ==
  LET f == m.stack[Len(m.stack)]
  IN IF f.fn = "create2" THEN Create2(m, f, value)
     ELSE TreeOfMatch(m, f, value)

\* at most 2^k steps, stopping when the outermost call has returned
RECURSIVE Run(_, _, _)
Run(m, value, k) ==
  IF Returned(m) THEN m
  ELSE IF k = 0 THEN Step(m, value)
  ELSE LET h == Run(m, value, k - 1)
       IN IF Returned(h) THEN h ELSE Run(h, value, k - 1)

\* tree_of(size, value); ok is false when the unreachable arm was taken or
\* the call has not returned within the steps allowed
TreeOf(st, size, value) ==
  LET m == Run([ok |-> TRUE, st |-> st, ret |-> <<>>,
                stack |-> <<Frame("tree_of", size)>>], value, MaxRunDepth)
      ok == m.ok /\ m.stack = <<>>
  IN [ok |-> ok, st |-> m.st, p |-> IF ok THEN m.ret[1] ELSE 0]

\* count() and depth() of every node of a store, children before parents (a
\* child is allocated before the node that holds it); counts are usize bits
RECURSIVE CountOf(_, _, _, _)
CountOf(st, tab, lo, hi) ==
  IF lo > hi THEN tab
  ELSE IF lo = hi THEN
    LET n == st.node[lo]
    IN Append(tab, IF n.tag = "E" THEN <<>>
                   ELSE Succ(Add(tab[n.left], tab[n.right])))
  ELSE LET mid == (lo + hi) \div 2
           h   == CountOf(st, tab, lo, mid)
       IN IF Len(h) = mid THEN CountOf(st, h, mid + 1, hi) ELSE h

RECURSIVE DepthOf(_, _, _, _)
DepthOf(st, tab, lo, hi) ==
  IF lo > hi THEN tab
  ELSE IF lo = hi THEN
    LET n == st.node[lo]
    IN Append(tab, IF n.tag = "E" THEN 0
                   ELSE (IF tab[n.left] >= tab[n.right] THEN tab[n.left]
                         ELSE tab[n.right]) + 1)
  ELSE LET mid == (lo + hi) \div 2
           h   == DepthOf(st, tab, lo, mid)
       IN IF Len(h) = mid THEN DepthOf(st, h, mid + 1, hi) ELSE h

Counts(st) == CountOf(st, <<>>, 1, Len(st.node))
Depths(st) == DepthOf(st, <<>>, 1, Len(st.node))

\* the sizes a tree is asked for: the small ones, and the smallest size whose
\* predecessor is not an f64 (2^53 + 4)
LargeSize == Add(Pow2Bits(MantissaBits), Pow2Bits(2))

TreeSizes == {ToBits(n) : n \in 0..MaxSize} \cup {LargeSize}

TreeValues == {"a", "b"}

InitTreeOf ==
  \E size \in TreeSizes, value \in TreeValues :
    /\ store = EmptyStore
    /\ vers = <<>>
    /\ log = [size |-> size, value |-> value, ok |-> TRUE]
    /\ last = [op |-> "init", x |-> <<>>, pre |-> EmptyStore]

\* let t = tree_of(size, value)
TreeOfCall ==
  /\ last.op = "init"
  /\ LET r == TreeOf(store, log.size, log.value)
     IN /\ store' = r.st
        /\ vers' = IF r.ok THEN <<r.p>> ELSE <<>>
        /\ log' = [log EXCEPT !.ok = r.ok]
        /\ last' = [op |-> "tree_of", x |-> log.size, pre |-> store]

\* BinaryTree::left and BinaryTree::right of the tree held last
Child(op, side) ==
  /\ vers # <<>>
  /\ Len(vers) <= MaxWalk
  /\ LET n == store.node[vers[Len(vers)]]
     IN IF n.tag = "E"
        THEN /\ last' = [op |-> op, x |-> None, pre |-> store]
             /\ UNCHANGED <<store, vers, log>>
        ELSE /\ store' = RcClone(store, n[side])
             /\ vers' = Append(vers, n[side])
             /\ last' = [op |-> op, x |-> Some(n[side]), pre |-> store]
             /\ UNCHANGED log

TreeLeft == Child("left", "left")

TreeRight == Child("right", "right")

NextTreeOf == TreeOfCall \/ TreeLeft \/ TreeRight

SpecTreeOf == InitTreeOf /\ [][NextTreeOf]_vars

\* the count table agrees with BinaryTree::count on the small trees
CountsAgree ==
  (last.op = "tree_of" /\ log.ok /\ Len(log.size) <= 4) =>
    /\ ToNat(Counts(store)[vers[1]]) = Count(store, vers[1])
    /\ Depths(store)[vers[1]] = Depth(store, vers[1])

\* C13: tree_of(n, v) returns without taking the unreachable arm, the tree
\* has count() = n, at every node the left subtree has as many nodes as the
\* right one or one more and the two depths differ by at most one;
\* tree_of(10) has depth 4 over two subtrees of depth 3, tree_of(0) is empty
\* and tree_of(1) is a leaf.
C13_TreeOfBalanced ==
  last.op = "tree_of" =>
    /\ log.ok
    /\ LET count == Counts(store)
           depth == Depths(store)
           root  == store.node[vers[1]]
       IN /\ count[vers[1]] = log.size
          /\ \A a \in 1..Len(store.node) :
               store.node[a].tag = "T" =>
                 LET l == store.node[a].left
                     r == store.node[a].right
                 IN /\ count[l] \in {count[r], Succ(count[r])}
                    /\ depth[l] - depth[r] \in {-1, 0, 1}
          /\ log.size = <<>> => root.tag = "E"
          /\ log.size = <<1>> =>
               /\ root.tag = "T"
               /\ store.node[root.left].tag = "E"
               /\ store.node[root.right].tag = "E"
          /\ log.size = ToBits(10) =>
               /\ depth[vers[1]] = 4
               /\ depth[root.left] = 3
               /\ depth[root.right] = 3

\* the same statement for the sizes whose predecessor is an f64
C13_SmallSizes == (Len(log.size) <= MantissaBits) => C13_TreeOfBalanced

\* ---------------------------------------------------------------- complete
\* depth - 1 on a usize: a debug build panics on overflow, a release build
\* wraps to usize::MAX
AllOnes == [i \in 1..UsizeBits |-> 1]

Builds == {"debug", "release"}

\* the closure of complete: a node over two clones of the subtree
Double(st, subtree, value) ==
  RcNew(RcClone(RcClone(st, subtree), subtree), T(subtree, value, subtree))

InitComplete ==
  \E d \in 0..MaxDepth, value \in TreeValues, build \in Builds :
    /\ store = EmptyStore
    /\ vers = <<>>
    /\ log = [depth |-> ToBits(d), value |-> value, build |-> build,
              n |-> <<>>, current |-> 0, steps |-> 0]
    /\ last = [op |-> "init", x |-> <<>>, pre |-> EmptyStore]

\* complete(depth, value) up to .skip(depth-1): the iterator holds the first
\* tree; a panic unwinds and drops the iterator
CompleteCall ==
  /\ last.op = "init"
  /\ LET empty == Empty(store)
         init  == RcNew(RcClone(empty.st, empty.p),
                        T(empty.p, log.value, empty.p))
     IN IF log.depth = <<>> /\ log.build = "debug"
        THEN /\ store' = RcDrop(init.st, init.p)
             /\ last' = [op |-> "panic", x |-> log.depth, pre |-> store]
             /\ UNCHANGED <<vers, log>>
        ELSE /\ store' = init.st
             /\ log' = [log EXCEPT !.current = init.p,
                          !.n = IF log.depth = <<>> THEN AllOnes
                                ELSE Pred(log.depth)]
             /\ last' = [op |-> "complete", x |-> log.depth, pre |-> store]
             /\ UNCHANGED vers

\* one of the n calls of Iterate::next whose tree Skip throws away
CompleteSkip ==
  /\ last.op \in {"complete", "next"}
  /\ log.n # <<>>
  /\ log.steps < MaxNext
  /\ LET next == Double(store, log.current, log.value)
     IN /\ store' = RcDrop(next.st, log.current)
        /\ log' = [log EXCEPT !.current = next.p, !.n = Pred(log.n),
                              !.steps = @ + 1]
        /\ last' = [op |-> "next", x |-> log.current, pre |-> store]
        /\ UNCHANGED vers

\* the call of Iterate::next whose tree is returned; the iterator, with the
\* tree it has built for the call after, is dropped
CompleteReturn ==
  /\ last.op \in {"complete", "next"}
  /\ log.n = <<>>
  /\ LET next == Double(store, log.current, log.value)
     IN /\ store' = RcDrop(next.st, next.p)
        /\ vers' = <<log.current>>
        /\ log' = [log EXCEPT !.current = 0, !.steps = @ + 1]
        /\ last' = [op |-> "return", x |-> log.current, pre |-> store]

NextComplete == CompleteCall \/ CompleteSkip \/ CompleteReturn

SpecComplete == InitComplete /\ [][NextComplete]_vars

\* every level of the tree is full
RECURSIVE IsComplete(_, _)
IsComplete(st, p) ==
  LET n == st.node[p]
  IN n.tag = "T" =>
       /\ Depth(st, n.left) = Depth(st, n.right)
       /\ IsComplete(st, n.left)
       /\ IsComplete(st, n.right)

\* C14: complete(d, v) does not panic, takes no more than d doubling steps,
\* and returns a complete tree with depth() = d and count() = 2^d - 1 in
\* which every node holds v.
C14_CompleteTree ==
  /\ last.op # "panic"
  /\ log.steps <= ToNat(log.depth)
  /\ last.op = "return" =>
       /\ Live(store, vers[1])
       /\ Depth(store, vers[1]) = ToNat(log.depth)
       /\ Count(store, vers[1]) = Pow2(ToNat(log.depth)) - 1
       /\ IsComplete(store, vers[1])
       /\ \A a \in Reach(store, vers[1]) :
            store.node[a].tag = "T" => store.node[a].val = log.value

\* the same statement for the depths above 0
C14_PositiveDepth == (log.depth # <<>>) => C14_CompleteTree

\* ------------------------------------------- heap claims: size and content
\* C15: in every heap reachable by insert, merge and delete_min, a node
\* with stored rank r is the root of a subtree of at least 2^r - 1 values,
\* and the right spine of a heap of n values is no longer than
\* floor(log2(n + 1)), that is 2^spine <= n + 1.
C15_LogarithmicRightSpine ==
  \A i \in 1..Len(vers) :
    /\ \A a \in TNodes(store, vers[i]) :
         Count(store, a) >= Pow2(store.node[a].val[1]) - 1
    /\ Pow2(RightSpine(store, vers[i])) <= Count(store, vers[i]) + 1

\* C15 witness: an insert made a heap of three values whose right spine has
\* two nodes, the longest that three values allow.
C15_Witness ==
  /\ last.op = "insert"
  /\ Count(store, Newest) = 3
  /\ Rank(store, Newest) = 2
  /\ RightSpine(store, Newest) = 2

\* the values of a heap, each as often as it is held, in non-decreasing order
HeapValues(st, p) ==
  LET nodes == InOrder(st, p)
  IN Sorted([i \in 1..Len(nodes) |-> nodes[i][2]])

\* s without its first element equal to x
RECURSIVE RemoveOne(_, _)
RemoveOne(s, x) ==
  IF s = <<>> THEN <<>>
  ELSE IF Head(s) = x THEN Tail(s)
  ELSE <<Head(s)>> \o RemoveOne(Tail(s), x)

\* C16: the values of a heap are a multiset: insert(x) adds one occurrence
\* of x; merge(a, b) holds the union of the two multisets, and when one of
\* the two is empty the result is the root of the other, with one more owner
\* and nothing allocated; delete_min of a non-empty heap takes away one
\* occurrence of the minimum and nothing else; delete_min of the empty heap
\* is the empty heap.
C16_MultisetRefinement ==
  /\ last.op = "insert" =>
       HeapValues(store, Newest)
         = InsertSorted(HeapValues(last.pre, last.x[1]), last.x[2])
  /\ last.op = "merge" =>
       LET a == last.x[1]
           b == last.x[2]
       IN /\ HeapValues(store, Newest)
               = Sorted(HeapValues(last.pre, a) \o HeapValues(last.pre, b))
          /\ IsEmpty(last.pre, a) => Newest = b
          /\ (IsEmpty(last.pre, b) /\ ~IsEmpty(last.pre, a)) => Newest = a
          /\ (IsEmpty(last.pre, a) \/ IsEmpty(last.pre, b)) =>
               /\ store.node = last.pre.node
               /\ store.strong[Newest] = last.pre.strong[Newest] + 1
  /\ last.op = "delete_min" =>
       LET h == last.x[1]
       IN IF IsEmpty(last.pre, h)
          THEN IsEmpty(store, Newest) /\ HeapValues(store, Newest) = <<>>
          ELSE LET min == FindMin(last.pre, h)[1]
               IN /\ \A y \in HeapItems(last.pre, h) : min <= y
                  /\ HeapValues(store, Newest)
                       = RemoveOne(HeapValues(last.pre, h), min)
                  /\ Len(HeapValues(store, Newest))
                       = Len(HeapValues(last.pre, h)) - 1

\* C16 witness: delete_min on a heap holding 1 twice and 2 once left one 1
\* and the 2.
C16_Witness ==
  /\ last.op = "delete_min"
  /\ HeapValues(last.pre, last.x[1]) = <<1, 1, 2>>
  /\ HeapValues(store, Newest) = <<1, 2>>

\* C16 witness of the other operations: a merge with the empty heap gave
\* back the root of a heap of two values, and a delete_min of an empty heap
\* gave an empty heap.
C16_WitnessEmpty ==
  /\ last.op = "merge"
  /\ IsEmpty(last.pre, last.x[2])
  /\ Count(last.pre, last.x[1]) = 2
  /\ Newest = last.x[1]

====
